---- MODULE Spec2Model ----
(***************************************************************************)
(* Canvas AI Planner: the task synchronizer (jobs/task-sync.js), the daily *)
(* update with its change detector and cache file (jobs/daily-update.js),  *)
(* the urgency classifier, the Canvas fetch and the choice of the          *)
(* completion backend, with the Notion databases the jobs write to.        *)
(*                                                                         *)
(* Timestamps are integers in milliseconds, as in a JavaScript Date.       *)
(* Texts are strings; Len gives their length in characters.                *)
(***************************************************************************)
EXTENDS Integers, Sequences, FiniteSets, TLC

VARIABLES
    now,            \* wall clock, ms: what `new Date()` returns
    store,          \* Notion task database: sequence of pages, query order
    pc,             \* position of the task-sync job
    assignments,    \* runTaskSync: const assignments
    existingTasks,  \* runTaskSync: const existingTasks
    i,              \* runTaskSync: loop index, 1-based
    newCount,       \* runTaskSync: let newCount
    updatedCount,   \* runTaskSync: let updatedCount
    exitCode,       \* process exit status of the last finished run, -1 before
    calls,          \* remote calls issued by the current run, in order
    runs,           \* number of runs started
    prevRun,        \* outcome of the run before the current one
    faults,         \* remote calls that have failed so far
    uDue,           \* classifier harness: the dueDate argument
    uTier,          \* classifier harness: the returned tier, "" before the call
    uFromDate,      \* classifier harness: tier of calculateUrgencyFromDate
    uCategories,    \* classifier harness: result of categorizeByUrgency
    previous,       \* change detector harness: argument previous
    current,        \* change detector harness: argument current
    changes,        \* change detector harness: returned {new, updated}
    cache,          \* daily update: the file .assignment-cache.json
    daily,          \* daily update: the locals of each running instance
    entries,        \* Notion: the daily-update entries created, in order
    config,         \* environment: the value of AI_PROVIDER, "" when unset
    canvas,         \* fetch harness: what Canvas holds for each course
    collected       \* fetch harness: getAllAssignments' const allAssignments

vars == <<now, store, pc, assignments, existingTasks, i, newCount,
          updatedCount, exitCode, calls, runs, prevRun, faults,
          uDue, uTier, uFromDate, uCategories, previous, current, changes,
          cache, daily, entries, config, canvas, collected>>

syncVars == <<store, pc, assignments, existingTasks, i, newCount,
              updatedCount, exitCode, calls, runs, prevRun, faults>>
urgVars == <<uDue, uTier, uFromDate, uCategories>>
detVars == <<previous, current, changes>>
dailyVars == <<cache, daily, entries, config>>
fetchVars == <<canvas, collected>>

----------------------------------------------------------------------------
(* Bounds of the model *)

MaxTicks == 1        \* clock advances at most this many days in the sync model
MaxRuns == 2         \* task-sync runs per behaviour
MaxInput == 2        \* assignments returned by one Canvas fetch
MaxStore == 4        \* pages in the task database
MaxFaults == 1       \* remote calls that fail in one behaviour
MaxNows == 4         \* reference times tried by the classifier harness
MaxSnap == 2         \* assignments in the previous snapshot of the detector
MaxCurrent == 3      \* assignments in the current snapshot of the detector

----------------------------------------------------------------------------
(* Program constants *)

MsPerDay == 86400000         \* 1000 * 60 * 60 * 24
UrgentDays == 2
WeekDays == 7
MinOverviewLen == 20
PageSize == 100
NoDue == -1                  \* a null / undefined due date
NoPoints == -1               \* a null points_possible

----------------------------------------------------------------------------
(* Small helpers *)

Max0(n) == IF n >= 0 THEN n ELSE 0

Range(s) == {s[k] : k \in 1..Len(s)}

SeqsUpTo(S, n) == UNION {[1..k -> S] : k \in 0..n}

Take(s, n) == SubSeq(s, 1, IF Len(s) < n THEN Len(s) ELSE n)

----------------------------------------------------------------------------
(* Urgency classifier, jobs/task-sync.js.  daysUntilDue = (due - now) /    *)
(* MsPerDay is a real-valued quotient; for millisecond differences the     *)
(* comparison daysUntilDue <= d is the comparison due - now <= d *         *)
(* MsPerDay, which is how it is written here.                              *)

calculateUrgency_truncDays(dueDate, t) ==
    IF dueDate = NoDue THEN "Upcoming"
    ELSE LET whole == IF dueDate - t >= 0 THEN (dueDate - t) \div MsPerDay
                      ELSE -1
         IN  IF whole < 0 THEN "Overdue"
             ELSE IF whole <= UrgentDays THEN "Urgent"
             ELSE IF whole <= WeekDays THEN "This Week"
             ELSE "Upcoming"

calculateUrgency(dueDate, t) ==
    IF dueDate = NoDue THEN "Upcoming"
    ELSE LET diff == dueDate - t
         IN  IF diff < 0 THEN "Overdue"
             ELSE IF diff <= UrgentDays * MsPerDay THEN "Urgent"
             ELSE IF diff <= WeekDays * MsPerDay THEN "This Week"
             ELSE "Upcoming"

(* a second pass that takes a due date exactly 2 or 7 days ahead for the   *)
(* next tier                                                               *)
calculateUrgencyFromDate_strict(dueDate, t) ==
    IF dueDate = NoDue THEN "Upcoming"
    ELSE LET diff == dueDate - t
         IN  IF diff < 0 THEN "Overdue"
             ELSE IF diff < UrgentDays * MsPerDay THEN "Urgent"
             ELSE IF diff < WeekDays * MsPerDay THEN "This Week"
             ELSE "Upcoming"

(* NotionClient.calculateUrgencyFromDate, used by the second pass *)
calculateUrgencyFromDate(dueDate, t) ==
    IF dueDate = NoDue THEN "Upcoming"
    ELSE LET diff == dueDate - t
         IN  IF diff < 0 THEN "Overdue"
             ELSE IF diff <= UrgentDays * MsPerDay THEN "Urgent"
             ELSE IF diff <= WeekDays * MsPerDay THEN "This Week"
             ELSE "Upcoming"

(* CanvasClient.categorizeByUrgency, used by the weekly review.  It works   *)
(* in hours: hoursUntilDue = (dueDate - now) / (1000 * 60 * 60) and        *)
(* daysUntilDue = hoursUntilDue / 24.  Both quotients are of an integer    *)
(* number of milliseconds, so hoursUntilDue < 0 is dueDate - now < 0 and   *)
(* daysUntilDue <= d is dueDate - now <= d * 24 * 3600000; the rounding of *)
(* the two divisions is far below the 1/86400000 between two quotients.    *)
(* new Date(null) is the epoch.                                            *)
MsPerHour == 3600000
HoursPerDay == 24

NoCategories ==
    [overdue |-> <<>>, urgent |-> <<>>, thisWeek |-> <<>>, upcoming |-> <<>>]

DateOf(due_at) == IF due_at = NoDue THEN 0 ELSE due_at

categorizeByUrgency(list, t) ==
    LET diff(a) == DateOf(a.due_at) - t
        isOverdue(a) == diff(a) < 0
        isUrgent(a) == /\ ~isOverdue(a)
                       /\ diff(a) <= UrgentDays * HoursPerDay * MsPerHour
        isThisWeek(a) == /\ ~isOverdue(a)
                         /\ ~isUrgent(a)
                         /\ diff(a) <= WeekDays * HoursPerDay * MsPerHour
        isUpcoming(a) == ~isOverdue(a) /\ ~isUrgent(a) /\ ~isThisWeek(a)
    IN  [overdue |-> SelectSeq(list, isOverdue),
         urgent |-> SelectSeq(list, isUrgent),
         thisWeek |-> SelectSeq(list, isThisWeek),
         upcoming |-> SelectSeq(list, isUpcoming)]

----------------------------------------------------------------------------
(* URLs.  A URL is the sequence of its path segments; a segment is a word  *)
(* or a run of decimal digits.  The absent URL is the empty sequence.      *)

W(s) == [kind |-> "w", w |-> s, d |-> <<>>]
D(ds) == [kind |-> "d", w |-> "", d |-> ds]
NoUrl == <<>>

RECURSIVE String(_)
(* String(assignment.id): the decimal digits of a number *)
String(n) == IF n < 10 THEN <<n>> ELSE String(n \div 10) \o <<n % 10>>

HtmlUrl(courseId, id) ==
    <<W("courses"), D(String(courseId)), W("assignments"), D(String(id))>>

(* a pattern that captures the digits after `courses/` instead *)
MatchAssignmentId_courseDigits(url) ==
    LET hits == {k \in 1..(Len(url) - 1) :
                    /\ url[k] = W("courses")
                    /\ url[k + 1].kind = "d"}
    IN  IF hits = {} THEN <<>>
        ELSE url[(CHOOSE k \in hits : \A m \in hits : k <= m) + 1].d

(* canvasUrl.match(/assignments\/(\d+)/): the digits captured at the first *)
(* place where the pattern matches, << >> when there is no match           *)
MatchAssignmentId(url) ==
    LET hits == {k \in 1..(Len(url) - 1) :
                    /\ url[k] = W("assignments")
                    /\ url[k + 1].kind = "d"}
    IN  IF hits = {} THEN <<>>
        ELSE url[(CHOOSE k \in hits : \A m \in hits : k <= m) + 1].d

----------------------------------------------------------------------------
(* Canvas assignments, as getAllAssignments sees them after the course     *)
(* name and code have been merged in.  An absent text is "".               *)

Courses ==
    {[id |-> 5, name |-> "Math", course_code |-> "M1"],
     [id |-> 6, name |-> "", course_code |-> "CS1"]}

CourseOf(id) == CHOOSE c \in Courses : c.id = (IF id = 1 THEN 5 ELSE 6)

Assignment(id, due, points) ==
    [id |-> id,
     name |-> IF id = 1 THEN "HW1" ELSE "Quiz2",
     course_name |-> CourseOf(id).name,
     course_code |-> CourseOf(id).course_code,
     due_at |-> due,
     points_possible |-> points,
     html_url |-> HtmlUrl(CourseOf(id).id, id)]

(* what the Canvas API can return for the sync job: HW1, and Quiz2 with or *)
(* without a due date                                                      *)
Upstream ==
    {Assignment(1, 2 * MsPerDay, 10),
     Assignment(2, 4 * MsPerDay, 10), Assignment(2, NoDue, 10)}

RECURSIVE InsertByDue(_, _)
(* position of x in an already sorted list under the comparator           *)
(* new Date(a.due_at) - new Date(b.due_at); the sort is stable            *)
InsertByDue(x, sorted) ==
    IF sorted = <<>> THEN <<x>>
    ELSE IF sorted[Len(sorted)].due_at <= x.due_at THEN Append(sorted, x)
    ELSE Append(InsertByDue(x, SubSeq(sorted, 1, Len(sorted) - 1)),
                sorted[Len(sorted)])

RECURSIVE SortByDue(_)
SortByDue(s) ==
    IF s = <<>> THEN <<>>
    ELSE InsertByDue(s[Len(s)], SortByDue(SubSeq(s, 1, Len(s) - 1)))

(* CanvasClient.getAllAssignments on the concatenated course lists *)
getAllAssignments(allAssignments) ==
    SortByDue(SelectSeq(allAssignments, LAMBDA a : a.due_at # NoDue))

----------------------------------------------------------------------------
(* Notion task database.  A page has the properties the jobs read and      *)
(* write; an absent property is "", NoUrl or NoDue, an absent checkbox is  *)
(* FALSE.  Page ids are the positions in the database.                     *)

Page(id, name, course, overview, urgency, url, due, done) ==
    [id |-> id, Name |-> name, Course |-> course, Overview |-> overview,
     Urgency |-> urgency, Url |-> url, Due |-> due, Done |-> done]

(* NotionClient.getTasksFromDatabase: one query, first page of results *)
getTasksFromDatabase(db) == Take(db, PageSize)

Given(taskData, key, absent) ==
    IF key \in DOMAIN taskData THEN taskData[key] ELSE absent

(* NotionClient.createTaskInDatabase: the page it creates *)
createTaskInDatabase(db, taskData) ==
    Append(db,
        Page(Len(db) + 1,
             Given(taskData, "name", ""),
             Given(taskData, "course", ""),
             Given(taskData, "aiOverview", ""),
             Given(taskData, "urgency", ""),
             Given(taskData, "canvasUrl", NoUrl),
             Given(taskData, "dueDate", NoDue),
             Given(taskData, "done", FALSE)))

(* NotionClient.updateTaskInDatabase: only the properties that are given   *)
(* and truthy are sent; done is sent whenever it is not undefined          *)
updateTaskInDatabase(db, pageId, taskData) ==
    LET old == db[pageId]
        new == [old EXCEPT
            !.Name = IF Given(taskData, "name", "") # ""
                     THEN taskData.name ELSE @,
            !.Course = IF Given(taskData, "course", "") # ""
                       THEN taskData.course ELSE @,
            !.Overview = IF Given(taskData, "aiOverview", "") # ""
                         THEN taskData.aiOverview ELSE @,
            !.Urgency = IF Given(taskData, "urgency", "") # ""
                        THEN taskData.urgency ELSE @,
            !.Url = IF Given(taskData, "canvasUrl", NoUrl) # NoUrl
                    THEN taskData.canvasUrl ELSE @,
            !.Due = IF Given(taskData, "dueDate", NoDue) # NoDue
                    THEN taskData.dueDate ELSE @,
            !.Done = IF "done" \in DOMAIN taskData
                     THEN taskData.done ELSE @]
    IN  [db EXCEPT ![pageId] = new]

----------------------------------------------------------------------------
(* Task sync job, jobs/task-sync.js *)

(* existingTasksMap: assignment id (digits) -> task; a later task with the *)
(* same id replaces an earlier one                                         *)
existingTasksMap(tasks) ==
    LET keyOf(k) == MatchAssignmentId(tasks[k].Url)
        keys == {keyOf(k) : k \in 1..Len(tasks)} \ {<<>>}
        last(key) == CHOOSE k \in 1..Len(tasks) :
                        /\ keyOf(k) = key
                        /\ \A m \in 1..Len(tasks) : keyOf(m) = key => m <= k
    IN  [key \in keys |-> tasks[last(key)]]

(* regenerating up to and including the minimum length *)
shouldRegenerateOverview_inclusive(existingTask) ==
    Len(existingTask.Overview) <= MinOverviewLen

shouldRegenerateOverview(existingTask) ==
    Len(existingTask.Overview) < MinOverviewLen

(* the text generateTaskOverview returns when the completion call throws *)
FallbackOverview(assignment) ==
    "Complete " \o assignment.name \o " for "
        \o (IF assignment.course_name # "" THEN assignment.course_name
            ELSE "course") \o "."

(* what ai.generateCompletion can do: return a text or throw *)
AITexts == {"Solve the exercises of chapter 3 and upload a PDF."}

Completions ==
    {[ok |-> TRUE, text |-> t] : t \in AITexts} \cup {[ok |-> FALSE, text |-> ""]}

(* no completion call is made *)
NoCompletion == [ok |-> TRUE, text |-> ""]

(* no fallback text when the completion call throws *)
generateTaskOverview_noFallback(completion, assignment) ==
    completion.text

generateTaskOverview(completion, assignment) ==
    IF completion.ok THEN completion.text ELSE FallbackOverview(assignment)

TaskData(assignment, aiOverview, urgency) ==
    [name |-> assignment.name,
     course |-> IF assignment.course_name # "" THEN assignment.course_name
                ELSE IF assignment.course_code # "" THEN assignment.course_code
                ELSE "Unknown Course",
     aiOverview |-> aiOverview,
     urgency |-> urgency,
     canvasUrl |-> assignment.html_url,
     dueDate |-> assignment.due_at,
     done |-> FALSE,
     assignmentId |-> String(assignment.id)]

Call(op, pos, page, ok) == [op |-> op, pos |-> pos, page |-> page, ok |-> ok]

NoRun == [started |-> FALSE, ok |-> FALSE, assignments |-> <<>>]

(* String.prototype.toLowerCase on the values of AI_PROVIDER tried *)
toLowerCase(text) ==
    CASE text = "Ollama" -> "ollama"
      [] text = "OpenAI" -> "openai"
      [] OTHER -> text

Backends == {"openai", "anthropic", "ollama"}

(* a constructor that falls back to OpenAI *)
AIProvider_fallback(env) ==
    LET provider == IF env = "" THEN "openai" ELSE env
    IN  [threw |-> FALSE,
         client |-> IF toLowerCase(provider) \in Backends
                    THEN toLowerCase(provider) ELSE "openai"]

(* new AIProvider(): the backend selected, or the throw of the default case *)
AIProvider(env) ==
    LET provider == IF env = "" THEN "openai" ELSE env
    IN  IF toLowerCase(provider) \in Backends
        THEN [threw |-> FALSE, client |-> toLowerCase(provider)]
        ELSE [threw |-> TRUE, client |-> ""]

(* lines 13-46: construct the clients, fetch the assignments and the       *)
(* existing tasks; the constructor of AIProvider or either fetch may throw *)
StartSync ==
    /\ pc \in {"idle", "done", "failed"}
    /\ runs < MaxRuns
    /\ runs' = runs + 1
    /\ prevRun' = [started |-> runs > 0, ok |-> pc = "done",
                   assignments |-> assignments]
    /\ newCount' = 0
    /\ updatedCount' = 0
    /\ i' = 1
    /\ \E all \in SeqsUpTo(Upstream, MaxInput) :
       \E outcome \in {"ok", "configError", "canvasError", "notionError"} :
          /\ Len(store) + Len(all) <= MaxStore
          /\ outcome = "configError" <=> AIProvider(config).threw
          /\ outcome \in {"canvasError", "notionError"} => faults < MaxFaults
          /\ faults' = faults + (IF outcome \in {"canvasError", "notionError"}
                                 THEN 1 ELSE 0)
          /\ calls' = IF outcome = "configError" THEN <<>>
                      ELSE <<Call("fetch", 0, 0, outcome # "canvasError")>>
                           \o (IF outcome = "canvasError" THEN <<>>
                               ELSE <<Call("query", 0, 0, outcome = "ok")>>)
          /\ IF outcome = "ok"
             THEN /\ assignments' = getAllAssignments(all)
                  /\ existingTasks' = getTasksFromDatabase(store)
                  /\ pc' = IF getAllAssignments(all) = <<>> THEN "urgency"
                           ELSE "loop"
                  /\ exitCode' = -1
             ELSE /\ assignments' = IF outcome = "notionError"
                                    THEN getAllAssignments(all) ELSE <<>>
                  /\ existingTasks' = <<>>
                  /\ pc' = "failed"
                  /\ exitCode' = 1
    /\ UNCHANGED <<now, store, urgVars, detVars, dailyVars, fetchVars>>

(* a loop that logs a failed write and goes on *)
AfterWrite_swallow(storeOk, idx, n) ==
    IF idx = n /\ storeOk THEN "urgency" ELSE "loop"

(* where the job goes after the create or update of assignment idx of n:   *)
(* a rejected await leaves the loop through the catch block, which         *)
(* rethrows to main, and main exits with status 1                          *)
AfterWrite(storeOk, idx, n) ==
    IF ~storeOk THEN "failed"
    ELSE IF idx = n THEN "urgency" ELSE "loop"

(* lines 48-94: one iteration of the loop *)
ProcessAssignment ==
    /\ pc = "loop"
    /\ i <= Len(assignments)
    /\ LET assignment == assignments[i]
           urgency == calculateUrgency(assignment.due_at, now)
           map == existingTasksMap(existingTasks)
           key == String(assignment.id)
           hasExisting == key \in DOMAIN map
           regenerate == \/ ~hasExisting
                         \/ shouldRegenerateOverview(map[key])
       IN  \E completion \in (IF regenerate THEN Completions ELSE {NoCompletion}) :
           \E storeOk \in BOOLEAN :
              LET aiOverview == IF regenerate
                                THEN generateTaskOverview(completion, assignment)
                                ELSE map[key].Overview
                  taskData == TaskData(assignment, aiOverview, urgency)
                  aiCall == IF regenerate
                            THEN <<Call("complete", i, 0, completion.ok)>>
                            ELSE <<>>
                  pageId == IF hasExisting THEN map[key].id ELSE Len(store) + 1
                  write == Call(IF hasExisting THEN "update" ELSE "create",
                                i, pageId, storeOk)
                  failed == (IF completion.ok THEN 0 ELSE 1)
                                + (IF storeOk THEN 0 ELSE 1)
              IN  /\ faults + failed <= MaxFaults
                  /\ faults' = faults + failed
                  /\ calls' = calls \o aiCall \o <<write>>
                  /\ IF storeOk
                     THEN /\ store' = IF hasExisting
                                      THEN updateTaskInDatabase(store, pageId, taskData)
                                      ELSE createTaskInDatabase(store, taskData)
                          /\ updatedCount' = updatedCount + (IF hasExisting THEN 1 ELSE 0)
                          /\ newCount' = newCount + (IF hasExisting THEN 0 ELSE 1)
                          /\ i' = i + 1
                     ELSE UNCHANGED <<store, updatedCount, newCount, i>>
                  /\ pc' = AfterWrite(storeOk, i, Len(assignments))
                  /\ exitCode' = IF AfterWrite(storeOk, i, Len(assignments)) = "failed"
                                 THEN 1 ELSE exitCode
    /\ UNCHANGED <<now, assignments, existingTasks, runs, prevRun, urgVars, detVars, dailyVars, fetchVars>>

(* the condition under which updateAllTasksUrgency updates a task *)
NeedsUrgencyUpdate(task, t) ==
    /\ task.Due # NoDue
    /\ ~task.Done
    /\ calculateUrgencyFromDate(task.Due, t) # task.Urgency

RECURSIVE UrgencyUpdates(_, _, _, _)
(* the database after the first `budget` updates of the second pass *)
UrgencyUpdates(db, tasks, t, budget) ==
    IF tasks = <<>> \/ budget = 0 THEN db
    ELSE IF NeedsUrgencyUpdate(Head(tasks), t)
         THEN UrgencyUpdates(
                  updateTaskInDatabase(db, Head(tasks).id,
                      [urgency |-> calculateUrgencyFromDate(Head(tasks).Due, t)]),
                  Tail(tasks), t, budget - 1)
         ELSE UrgencyUpdates(db, Tail(tasks), t, budget)

(* lines 96-101 and NotionClient.updateAllTasksUrgency: the second pass.   *)
(* The query or any one update may throw; failAt = 0 is the query,         *)
(* failAt = k the k-th update, failAt = -1 no failure.                     *)
UrgencyPass ==
    /\ pc = "urgency"
    /\ LET tasks == getTasksFromDatabase(store)
           need == SelectSeq(tasks, LAMBDA task : NeedsUrgencyUpdate(task, now))
       IN  \E failAt \in -1..Len(need) :
              LET done == IF failAt = -1 THEN Len(need) ELSE Max0(failAt - 1)
              IN  /\ failAt >= 0 => faults < MaxFaults
                  /\ faults' = faults + (IF failAt >= 0 THEN 1 ELSE 0)
                  /\ store' = UrgencyUpdates(store, tasks, now, done)
                  /\ calls' = calls
                        \o <<Call("query", 0, 0, failAt # 0)>>
                        \o [k \in 1..done |-> Call("urgency", 0, need[k].id, TRUE)]
                        \o (IF failAt >= 1
                            THEN <<Call("urgency", 0, need[failAt].id, FALSE)>>
                            ELSE <<>>)
                  /\ pc' = IF failAt = -1 THEN "done" ELSE "failed"
                  /\ exitCode' = IF failAt = -1 THEN 0 ELSE 1
    /\ UNCHANGED <<now, assignments, existingTasks, i, newCount, updatedCount,
                   runs, prevRun, urgVars, detVars, dailyVars, fetchVars>>

(* time passes: a day *)
Tick ==
    /\ now < (1 + MaxTicks) * MsPerDay
    /\ now' = now + MsPerDay
    /\ UNCHANGED <<syncVars, urgVars, detVars, dailyVars, fetchVars>>

(* the daily update job before its first run: no cache file, no instance   *)
(* started, no entry created                                               *)
Instances == {1, 2}

NoFile == [exists |-> FALSE, text |-> <<>>]

NoDailyRun ==
    [pc |-> "idle", current |-> <<>>, previous |-> <<>>,
     changes |-> [new |-> <<>>, updated |-> <<>>]]

NotStarted ==
    [pc |-> "idle", current |-> <<>>, previous |-> <<>>,
     changes |-> [new |-> <<>>, updated |-> <<>>],
     client |-> "", calls |-> <<>>, startedAt |-> 0, last |-> NoDailyRun]

DailyIdle ==
    /\ cache = NoFile
    /\ daily = [n \in Instances |-> NotStarted]
    /\ entries = <<>>

(* no fetch under way in the fetch harness *)
FetchIdle ==
    /\ canvas = <<>>
    /\ collected = <<>>

(* task databases the first run can find: empty, or filled by earlier runs *)
(* (one task ticked as done by the user, one with a short overview), or    *)
(* holding tasks the user entered by hand                                  *)
StoredLong == "Read chapter 12 now."
StoredShort == "Read chapter 1 now."

InitStores ==
    {<<>>,
     <<Page(1, "HW1", "Math", StoredLong, "Upcoming", HtmlUrl(5, 1),
            2 * MsPerDay, TRUE),
       Page(2, "Quiz2", "CS1", StoredShort, "Urgent", HtmlUrl(6, 2),
            4 * MsPerDay, FALSE)>>,
     <<Page(1, "Buy books", "", "", "", <<W("shop"), D(<<7>>)>>, NoDue, FALSE),
       Page(2, "Call advisor", "", "", "", NoUrl, 2 * MsPerDay, FALSE)>>}

(* values of AI_PROVIDER: unset, a backend in mixed case, an unknown name; *)
(* the sync job is started with the first or the last                      *)
ProviderConfigs == {"", "Ollama", "gemini"}

SyncConfigs == {"", "gemini"}

Init ==
    /\ now = MsPerDay
    /\ store \in InitStores
    /\ pc = "idle"
    /\ assignments = <<>>
    /\ existingTasks = <<>>
    /\ i = 1
    /\ newCount = 0
    /\ updatedCount = 0
    /\ exitCode = -1
    /\ calls = <<>>
    /\ runs = 0
    /\ prevRun = NoRun
    /\ faults = 0
    /\ uDue = NoDue
    /\ uTier = ""
    /\ uFromDate = ""
    /\ uCategories = NoCategories
    /\ previous = <<>>
    /\ current = <<>>
    /\ changes = [new |-> <<>>, updated |-> <<>>]
    /\ DailyIdle
    /\ FetchIdle
    /\ config \in SyncConfigs

Next ==
    \/ StartSync
    \/ ProcessAssignment
    \/ UrgencyPass
    \/ Tick

Spec == Init /\ [][Next]_vars

----------------------------------------------------------------------------
(* The classifier on its own: calculateUrgency(uDue) is called once at a   *)
(* reference time and a due date drawn around the tier boundaries.         *)

Offsets ==
    {-MsPerDay, -1, 0, 1, MsPerDay,
     UrgentDays * MsPerDay - 1, UrgentDays * MsPerDay, UrgentDays * MsPerDay + 1,
     MsPerDay \div 2, 3 * MsPerDay, 3 * MsPerDay + MsPerDay \div 4,
     WeekDays * MsPerDay - 1, WeekDays * MsPerDay, WeekDays * MsPerDay + 1,
     8 * MsPerDay}

Idle ==
    /\ store = <<>>
    /\ assignments = <<>>
    /\ existingTasks = <<>>
    /\ i = 1
    /\ newCount = 0
    /\ updatedCount = 0
    /\ exitCode = -1
    /\ calls = <<>>
    /\ runs = 0
    /\ prevRun = NoRun
    /\ faults = 0

UrgencyInit ==
    /\ Idle
    /\ pc = "call"
    /\ now \in {k * MsPerDay + k : k \in 1..MaxNows}
    /\ uDue \in {NoDue} \cup {now + off : off \in Offsets}
    /\ uTier = ""
    /\ uFromDate = ""
    /\ uCategories = NoCategories
    /\ previous = <<>>
    /\ current = <<>>
    /\ changes = [new |-> <<>>, updated |-> <<>>]
    /\ DailyIdle
    /\ FetchIdle
    /\ config = ""

Classify ==
    /\ pc = "call"
    /\ uTier' = calculateUrgency(uDue, now)
    /\ pc' = "returned"
    /\ UNCHANGED <<now, store, assignments, existingTasks, i, newCount,
                   updatedCount, exitCode, calls, runs, prevRun, faults,
                   uDue, uFromDate, uCategories, detVars, dailyVars,
                   fetchVars>>

UrgencyNext == Classify

UrgencySpec == UrgencyInit /\ [][UrgencyNext]_vars

(* C5: calculateUrgency returns Upcoming without a due date, Overdue when  *)
(* the due date is strictly before now, Urgent when it is at most 2 days   *)
(* ahead (0 and exactly 2 days included), This Week when it is more than 2 *)
(* and at most 7 days ahead, Upcoming beyond 7 days; the difference is     *)
(* compared exactly, to the millisecond, not in whole days.                *)
C5_UrgencyTiers ==
    pc = "returned" =>
        /\ uDue = NoDue => uTier = "Upcoming"
        /\ (uDue # NoDue /\ uDue < now) => uTier = "Overdue"
        /\ (uDue # NoDue /\ uDue >= now /\ uDue - now <= 2 * MsPerDay)
              => uTier = "Urgent"
        /\ (uDue # NoDue /\ uDue - now > 2 * MsPerDay
                         /\ uDue - now <= 7 * MsPerDay)
              => uTier = "This Week"
        /\ (uDue # NoDue /\ uDue - now > 7 * MsPerDay) => uTier = "Upcoming"

(* the smallest instant after the 2-day cutoff has been classified *)
C5_Witness ==
    /\ pc = "returned"
    /\ uDue = now + 2 * MsPerDay + 1
    /\ uTier = "This Week"

----------------------------------------------------------------------------
(* Change detector, jobs/daily-update.js *)

(* the values of new Map(s.map(a => [a.id, a])) in iteration order: keys   *)
(* keep the position of their first occurrence, the value is the last      *)
(* assignment that carries the key                                         *)
(* a Map that moves a key to the end when it is set again *)
MapValues_lastPosition(s) ==
    SelectSeq(s, LAMBDA a :
        \E k \in 1..Len(s) :
           /\ s[k] = a
           /\ \A m \in (k + 1)..Len(s) : s[m].id # a.id)

MapValues(s) ==
    LET first == SelectSeq([k \in 1..Len(s) |-> k],
                     LAMBDA k : \A m \in 1..(k - 1) : s[m].id # s[k].id)
        last(id) == CHOOSE k \in 1..Len(s) :
                        /\ s[k].id = id
                        /\ \A m \in 1..Len(s) : s[m].id = id => m <= k
    IN  [j \in 1..Len(first) |-> s[last(s[first[j]].id)]]

MapHas(s, id) == \E k \in 1..Len(s) : s[k].id = id

MapGet(s, id) == CHOOSE a \in Range(MapValues(s)) : a.id = id

(* a detector that compares the due date only *)
detectChanges_dueOnly(prev, cur) ==
    LET isNew(a) == ~MapHas(prev, a.id)
        isUpdated(a) == /\ MapHas(prev, a.id)
                        /\ MapGet(prev, a.id).due_at # a.due_at
    IN  [new |-> SelectSeq(MapValues(cur), isNew),
         updated |-> SelectSeq(MapValues(cur), isUpdated)]

(* a detector that also reports what is gone from current *)
detectChanges_deletions(prev, cur) ==
    LET isNew(a) == ~MapHas(prev, a.id)
        isUpdated(a) == /\ MapHas(prev, a.id)
                        /\ \/ MapGet(prev, a.id).due_at # a.due_at
                           \/ MapGet(prev, a.id).points_possible # a.points_possible
        isGone(a) == ~MapHas(cur, a.id)
    IN  [new |-> SelectSeq(MapValues(cur), isNew),
         updated |-> SelectSeq(MapValues(cur), isUpdated)
                        \o SelectSeq(MapValues(prev), isGone)]

detectChanges(prev, cur) ==
    LET isNew(a) == ~MapHas(prev, a.id)
        isUpdated(a) == /\ MapHas(prev, a.id)
                        /\ \/ MapGet(prev, a.id).due_at # a.due_at
                           \/ MapGet(prev, a.id).points_possible # a.points_possible
    IN  [new |-> SelectSeq(MapValues(cur), isNew),
         updated |-> SelectSeq(MapValues(cur), isUpdated)]

(* assignments a snapshot can hold: getUpcomingAssignments keeps only      *)
(* assignments with a due date; points_possible may be null                *)
SnapshotAssignments ==
    {Assignment(id, due, points) :
        id \in {1, 2}, due \in {2 * MsPerDay, 4 * MsPerDay},
        points \in {10, NoPoints}}

DetectInit ==
    /\ Idle
    /\ pc = "call"
    /\ now = MsPerDay
    /\ uDue = NoDue
    /\ uTier = ""
    /\ uFromDate = ""
    /\ uCategories = NoCategories
    /\ previous \in SeqsUpTo(SnapshotAssignments, MaxSnap)
    /\ current \in SeqsUpTo(SnapshotAssignments, MaxCurrent)
    /\ changes = [new |-> <<>>, updated |-> <<>>]
    /\ DailyIdle
    /\ FetchIdle
    /\ config = ""

Detect ==
    /\ pc = "call"
    /\ changes' = detectChanges(previous, current)
    /\ pc' = "returned"
    /\ UNCHANGED <<now, store, assignments, existingTasks, i, newCount,
                   updatedCount, exitCode, calls, runs, prevRun, faults,
                   urgVars, previous, current, dailyVars, fetchVars>>

DetectNext == Detect

DetectSpec == DetectInit /\ [][DetectNext]_vars

(* the assignment of previous that current is compared with *)
PreviousEntry(id) ==
    previous[CHOOSE k \in 1..Len(previous) :
                /\ previous[k].id = id
                /\ \A m \in 1..Len(previous) : previous[m].id = id => m <= k]

InPrevious(id) == \E k \in 1..Len(previous) : previous[k].id = id

Differs(a) ==
    \/ PreviousEntry(a.id).due_at # a.due_at
    \/ PreviousEntry(a.id).points_possible # a.points_possible

Classified(a) ==
    /\ a \in Range(changes.new) <=> ~InPrevious(a.id)
    /\ a \in Range(changes.updated) <=> (InPrevious(a.id) /\ Differs(a))

(* C6 as stated: every assignment of current is in `new` exactly when its  *)
(* id is absent from previous, in `updated` exactly when its id is in      *)
(* previous and due_at or points_possible differs, otherwise in neither.   *)
C6_Original ==
    pc = "returned" => \A k \in 1..Len(current) : Classified(current[k])

(* C6 amended: the statement holds for every assignment of current that is *)
(* the last one in current with its id (so for all of them when the ids of *)
(* current are distinct); an assignment followed by another one with the   *)
(* same id is not classified: the lists hold only such last assignments.   *)
C6_LastWithIdClassified ==
    pc = "returned" =>
        LET isLast(k) == \A m \in (k + 1)..Len(current) :
                            current[m].id # current[k].id
        IN  /\ \A k \in 1..Len(current) : isLast(k) => Classified(current[k])
            /\ \A a \in Range(changes.new) \cup Range(changes.updated) :
                  \E k \in 1..Len(current) : isLast(k) /\ current[k] = a

(* an assignment whose points changed, with the same due date, is reported *)
C6_Witness ==
    /\ pc = "returned"
    /\ Len(current) = 2
    /\ \E a \in Range(changes.updated) :
          /\ PreviousEntry(a.id).due_at = a.due_at
          /\ PreviousEntry(a.id).points_possible = NoPoints
          /\ a.points_possible = 10
    /\ changes.new # <<>>

(* C7: every element of `new` and of `updated` is an element of current,   *)
(* so an assignment whose id is only in previous is in neither list.       *)
C7_OnlyCurrentReported ==
    pc = "returned" =>
        /\ Range(changes.new) \subseteq Range(current)
        /\ Range(changes.updated) \subseteq Range(current)
        /\ \A k \in 1..Len(previous) :
              (\A m \in 1..Len(current) : current[m].id # previous[k].id)
                 => \A a \in Range(changes.new) \cup Range(changes.updated) :
                       a.id # previous[k].id

(* an assignment has disappeared from current while another one changed *)
C7_Witness ==
    /\ pc = "returned"
    /\ \E k \in 1..Len(previous) :
          \A m \in 1..Len(current) : current[m].id # previous[k].id
    /\ changes.updated # <<>>

----------------------------------------------------------------------------
(* Claims about the task sync job, checked under Spec *)

(* a step of the upsert loop: the create or update of assignments[i] *)
UpsertStep == pc = "loop" /\ calls' # calls

(* the calls the step has issued *)
Issued == SubSeq(calls', Len(calls) + 1, Len(calls'))

(* the existing records whose URL carries the id of assignment a *)
Matching(a) ==
    {k \in 1..Len(existingTasks) :
        \E n \in 1..(Len(existingTasks[k].Url) - 1) :
            /\ existingTasks[k].Url[n] = W("assignments")
            /\ existingTasks[k].Url[n + 1] = D(String(a.id))}

MatchedRecord(a) ==
    existingTasks[CHOOSE k \in Matching(a) : \A m \in Matching(a) : m <= k]

(* C1 as stated: the upsert of an assignment leaves the Done flag of every *)
(* existing record as it was.                                              *)
C1_DonePreserved ==
    [][UpsertStep =>
          \A p \in 1..Len(store) : store'[p].Done = store[p].Done]_vars

(* C2 as stated: after a successful pass the store holds exactly one       *)
(* record per assignment id seen, never two records for one id.            *)
C2_OneRecordPerId ==
    pc = "done" =>
        /\ \A p, q \in 1..Len(store) :
              (/\ MatchAssignmentId(store[p].Url) # <<>>
               /\ MatchAssignmentId(store[p].Url) = MatchAssignmentId(store[q].Url))
                 => p = q
        /\ \A k \in 1..Len(assignments) :
              \E p \in 1..Len(store) :
                 MatchAssignmentId(store[p].Url) = String(assignments[k].id)

(* the second of two successive runs on the same assignments has ended,    *)
(* and every stored overview it found was at least 20 characters long      *)
SecondRunSameInput ==
    /\ pc = "done"
    /\ prevRun.started
    /\ prevRun.ok
    /\ prevRun.assignments = assignments
    /\ \A k \in 1..Len(existingTasks) : Len(existingTasks[k].Overview) >= 20

(* C3 as stated: the second run reports newCount = 0 and updatedCount = 0. *)
C3_Original ==
    SecondRunSameInput => (newCount = 0 /\ updatedCount = 0)

(* C3 amended: the second run creates nothing and updates every            *)
(* assignment: newCount = 0 and updatedCount = number of assignments.      *)
C3_SecondRunUpdatesAll ==
    SecondRunSameInput => (newCount = 0 /\ updatedCount = Len(assignments))

(* a second run over two assignments has rewritten both records *)
C3_Witness ==
    /\ SecondRunSameInput
    /\ Len(assignments) = 2
    /\ assignments[1].id # assignments[2].id
    /\ updatedCount = 2

(* C4 as stated: no step writes a new urgency tier to a record whose Done  *)
(* flag is true.                                                           *)
C4_DoneNeverReclassified ==
    [][\A p \in 1..Len(store) :
          store[p].Done => store'[p].Urgency = store[p].Urgency]_vars

(* C8: the completion backend is called for an assignment exactly when no  *)
(* existing record matches it or the matching record's overview is shorter *)
(* than 20 characters; otherwise the stored overview is written back.      *)
C8_RegenerateIffShort ==
    [][UpsertStep =>
          LET a == assignments[i]
              called == \E k \in 1..Len(Issued) : Issued[k].op = "complete"
              write == Issued[Len(Issued)]
          IN  /\ called <=> (\/ Matching(a) = {}
                             \/ Len(MatchedRecord(a).Overview) < 20)
              /\ (~called /\ write.ok) =>
                    /\ write.op = "update"
                    /\ store'[write.page].Overview = MatchedRecord(a).Overview
                    /\ store'[write.page].Overview = store[write.page].Overview]_vars

(* in one run a record with a 20-character overview was updated without a  *)
(* completion call and one with a 19-character overview with one           *)
C8_Witness ==
    /\ Len(existingTasks) = 2
    /\ Len(existingTasks[1].Overview) = 20
    /\ Len(existingTasks[2].Overview) = 19
    /\ \E k \in 1..Len(calls) :
          /\ calls[k] = Call("update", calls[k].pos, 1, TRUE)
          /\ \A m \in 1..Len(calls) :
                calls[m].op = "complete" => calls[m].pos # calls[k].pos
    /\ \E k \in 2..Len(calls) :
          /\ calls[k] = Call("update", calls[k].pos, 2, TRUE)
          /\ calls[k - 1].op = "complete"
          /\ calls[k - 1].pos = calls[k].pos

(* the fallback overview of the two assignments *)
ExpectedFallback(a) ==
    IF a.id = 1 THEN "Complete HW1 for Math." ELSE "Complete Quiz2 for course."

(* C9: when the completion call fails for an assignment, the assignment is *)
(* still written, with the fallback text, and the loop goes on to the next *)
(* assignment; a run that ends has written every assignment.               *)
C9_FallbackAndContinue ==
    [][UpsertStep =>
          LET a == assignments[i]
              aiFailed == \E k \in 1..Len(Issued) :
                             Issued[k].op = "complete" /\ ~Issued[k].ok
              write == Issued[Len(Issued)]
          IN  aiFailed =>
                 /\ write.op \in {"create", "update"}
                 /\ write.pos = i
                 /\ write.ok =>
                       /\ store'[write.page].Overview = ExpectedFallback(a)
                       /\ store'[write.page].Name = a.name
                       /\ i' = i + 1
                       /\ pc' = IF i < Len(assignments) THEN "loop" ELSE "urgency"]_vars

(* the completion call failed for the first assignment and the second one  *)
(* was written after it                                                    *)
C9_Witness ==
    /\ pc = "done"
    /\ \E k \in 1..Len(calls) :
          /\ calls[k].op = "complete" /\ ~calls[k].ok /\ calls[k].pos = 1
          /\ calls[k + 1].op = "create" /\ calls[k + 1].ok
          /\ store[calls[k + 1].page].Overview = ExpectedFallback(assignments[1])
    /\ \E k \in 1..Len(calls) :
          calls[k].op \in {"create", "update"} /\ calls[k].pos = 2 /\ calls[k].ok

(* C10: a failed create or update is the last remote call of the run: no   *)
(* later completion, create, update or second-pass call; the run has       *)
(* failed with exit status 1; the earlier writes are in the store.         *)
C10_WriteFailureAborts ==
    \A k \in 1..Len(calls) :
        (calls[k].op \in {"create", "update"} /\ ~calls[k].ok) =>
            /\ k = Len(calls)
            /\ pc = "failed"
            /\ exitCode = 1
            /\ i = calls[k].pos
            /\ \A m \in 1..(k - 1) :
                  calls[m].op \in {"create", "update"} =>
                     /\ calls[m].ok
                     /\ calls[m].pos < calls[k].pos
                     /\ calls[m].page \in 1..Len(store)
                     /\ store[calls[m].page].Name = assignments[calls[m].pos].name
                     /\ store[calls[m].page].Url = assignments[calls[m].pos].html_url

(* the write of the second assignment failed after the first was created *)
C10_Witness ==
    /\ pc = "failed"
    /\ Len(assignments) = 2
    /\ \E k \in 1..Len(calls) :
          /\ calls[k].op = "create" /\ calls[k].ok /\ calls[k].pos = 1
          /\ store[calls[k].page].Name = assignments[1].name
    /\ calls[Len(calls)].op \in {"create", "update"}
    /\ ~calls[Len(calls)].ok
    /\ calls[Len(calls)].pos = 2

(* the records the second pass has to update at time t, and what it makes  *)
(* of a record                                                             *)
Stale(task, t) ==
    /\ task.Due # NoDue
    /\ ~task.Done
    /\ calculateUrgencyFromDate(task.Due, t) # task.Urgency

Refreshed(task, t) ==
    [task EXCEPT !.Urgency = calculateUrgencyFromDate(task.Due, t)]

(* C11: the second pass covers every record of the task store: when it     *)
(* ends without error it has issued an update for exactly the records that *)
(* have a due date, are not done and whose recomputed tier differs from    *)
(* the stored one, such an update has changed the urgency alone, and every *)
(* other record is as it was.                                              *)
C11_SecondPassCoversAll ==
    [][(pc = "urgency" /\ pc' = "done") =>
          /\ Len(store') = Len(store)
          /\ \A p \in 1..Len(store) :
                store'[p] = IF Stale(store[p], now) THEN Refreshed(store[p], now)
                            ELSE store[p]
          /\ \A p \in 1..Len(store) :
                Stale(store[p], now) <=>
                   \E c \in 1..Len(Issued) :
                      Issued[c] = Call("urgency", 0, store[p].id, TRUE)]_vars

----------------------------------------------------------------------------
(* The second pass on a task database about as large as one page of the    *)
(* query: a run that fetched no assignment has reached line 98.            *)
MaxOverflow == 1

(* a database of n tasks entered by hand, the last of them with the given  *)
(* urgency, due date and Done flag                                         *)
BigStore(n, urgency, due, done) ==
    [k \in 1..n |->
        IF k < n THEN Page(k, "Task", "", "", "", NoUrl, NoDue, FALSE)
        ELSE Page(k, "Essay", "", "", urgency, NoUrl, due, done)]

BigStores ==
    {BigStore(n, urgency, due, done) :
        n \in (PageSize - 1)..(PageSize + MaxOverflow),
        urgency \in {"Urgent", "Upcoming"},
        due \in {NoDue, 2 * MsPerDay, 4 * MsPerDay},
        done \in BOOLEAN}

PagingInit ==
    /\ now = MsPerDay
    /\ store \in BigStores
    /\ pc = "urgency"
    /\ assignments = <<>>
    /\ existingTasks = getTasksFromDatabase(store)
    /\ i = 1
    /\ newCount = 0
    /\ updatedCount = 0
    /\ exitCode = -1
    /\ calls = <<Call("fetch", 0, 0, TRUE), Call("query", 0, 0, TRUE)>>
    /\ runs = 1
    /\ prevRun = NoRun
    /\ faults = 0
    /\ uDue = NoDue
    /\ uTier = ""
    /\ uFromDate = ""
    /\ uCategories = NoCategories
    /\ previous = <<>>
    /\ current = <<>>
    /\ changes = [new |-> <<>>, updated |-> <<>>]
    /\ DailyIdle
    /\ FetchIdle
    /\ config = ""

PagingNext ==
    \/ UrgencyPass
    \/ Tick

PagingSpec == PagingInit /\ [][PagingNext]_vars

----------------------------------------------------------------------------
(* The daily update job (jobs/daily-update.js).  Two instances can run at  *)
(* once; each interleaves with the other at its awaits.                    *)

MaxFetch == 2        \* assignments returned by one fetch of the daily update

FortnightDays == 14

(* what the Canvas API can return for the daily update: HW1 with or        *)
(* without points, Quiz2, and a Quiz2 that is overdue                      *)
DailyUpstream ==
    {Assignment(1, 2 * MsPerDay, 10), Assignment(1, 2 * MsPerDay, NoPoints),
     Assignment(2, 4 * MsPerDay, 10), Assignment(2, 0, 10)}

(* CanvasClient.getUpcomingAssignments(14) on the concatenated course lists *)
getUpcomingAssignments(allAssignments, t) ==
    SortByDue(SelectSeq(allAssignments,
        LAMBDA a : /\ a.due_at # NoDue
                   /\ a.due_at >= t
                   /\ a.due_at <= t + FortnightDays * MsPerDay))

(* JSON.stringify of an assignment followed by JSON.parse: a key whose     *)
(* value is undefined (a course without a name) is not in the object read  *)
(* back; null (NoDue, NoPoints) is kept                                    *)
OptionalKeys == {"course_name", "course_code"}

JsonObject(a) ==
    [key \in {k \in DOMAIN a : k \in OptionalKeys => a[k] # ""} |-> a[key]]

Stringify(list) == [k \in 1..Len(list) |-> JsonObject(list[k])]

(* a job that looks for the cache file where it is not *)
readCache_noFile(file) == <<>>

(* lines 26-30: previousAssignments *)
readCache(file) == IF file.exists THEN file.text ELSE <<>>

(* line 69 *)
writeCache(currentAssignments) ==
    [exists |-> TRUE, text |-> Stringify(currentAssignments)]

(* an early return that looks at the new assignments only *)
NoChanges_newOnly(ch) == Len(ch.new) = 0

(* line 37 *)
NoChanges(ch) == Len(ch.new) = 0 /\ Len(ch.updated) = 0

(* a job that keeps in the cache what is gone from the snapshot *)
CacheAfterCreate_keepGone(created, file, currentAssignments) ==
    IF created
    THEN [exists |-> TRUE,
          text |-> Stringify(currentAssignments) \o
                   SelectSeq(readCache(file), LAMBDA old :
                       \A k \in 1..Len(currentAssignments) :
                          currentAssignments[k].id # old.id)]
    ELSE file

(* a job that leaves a cache file alone once there is one *)
CacheAfterCreate_keepExisting(created, file, currentAssignments) ==
    IF created /\ ~file.exists THEN writeCache(currentAssignments) ELSE file

(* a job that writes the cache before it creates the entry *)
CacheAfterCreate_writeFirst(created, file, currentAssignments) ==
    writeCache(currentAssignments)

(* lines 62-69: the cache once createDailyUpdate has returned or thrown *)
CacheAfterCreate(created, file, currentAssignments) ==
    IF created THEN writeCache(currentAssignments) ELSE file

RemoteCall(op, backend, ok) == [op |-> op, backend |-> backend, ok |-> ok]

(* what an instance remembers of the run it has just ended *)
LastRun(n) ==
    [pc |-> daily[n].pc, current |-> daily[n].current,
     previous |-> daily[n].previous, changes |-> daily[n].changes]

(* lines 11-58: an instance starts, constructs its clients, fetches the    *)
(* upcoming assignments, reads the cache, detects the changes and either   *)
(* returns or asks for the summary.  The constructor of AIProvider or the  *)
(* fetch may throw.                                                        *)
StartDaily(n) ==
    /\ daily[n].pc \in {"idle", "done", "failed"}
    /\ runs < MaxRuns
    /\ runs' = runs + 1
    /\ LET ai == AIProvider(config)
           begun == [NotStarted EXCEPT !.startedAt = runs + 1,
                                       !.last = LastRun(n),
                                       !.client = ai.client]
       IN  IF ai.threw
           THEN /\ daily' = [daily EXCEPT ![n] = [begun EXCEPT !.pc = "failed"]]
                /\ faults' = faults
           ELSE \E raw \in SeqsUpTo(DailyUpstream, MaxFetch) :
                \E fetched \in BOOLEAN :
                   LET cur == getUpcomingAssignments(raw, now)
                       prev == readCache(cache)
                       ch == detectChanges(prev, cur)
                   IN  /\ ~fetched => faults < MaxFaults
                       /\ faults' = faults + (IF fetched THEN 0 ELSE 1)
                       /\ daily' = [daily EXCEPT ![n] =
                             IF fetched
                             THEN [begun EXCEPT
                                     !.pc = IF NoChanges(ch) THEN "done"
                                            ELSE "summarizing",
                                     !.current = cur,
                                     !.previous = prev,
                                     !.changes = ch,
                                     !.calls = <<RemoteCall("fetch", "canvas", TRUE)>>]
                             ELSE [begun EXCEPT
                                     !.pc = "failed",
                                     !.calls = <<RemoteCall("fetch", "canvas", FALSE)>>]]
    /\ UNCHANGED <<now, store, pc, assignments, existingTasks, i, newCount,
                   updatedCount, exitCode, calls, prevRun, urgVars, detVars,
                   cache, entries, config, fetchVars>>

(* line 58: ai.generateCompletion returns the summary or throws *)
GenerateCompletion(n) ==
    /\ daily[n].pc = "summarizing"
    /\ \E ok \in BOOLEAN :
          /\ ~ok => faults < MaxFaults
          /\ faults' = faults + (IF ok THEN 0 ELSE 1)
          /\ daily' = [daily EXCEPT ![n] =
                [@ EXCEPT !.pc = IF ok THEN "saving" ELSE "failed",
                          !.calls = Append(@, RemoteCall("completion",
                                                   daily[n].client, ok))]]
    /\ UNCHANGED <<now, store, pc, assignments, existingTasks, i, newCount,
                   updatedCount, exitCode, calls, runs, prevRun, urgVars,
                   detVars, cache, entries, config, fetchVars>>

(* lines 62-72: notion.createDailyUpdate returns or throws; the cache is   *)
(* written once it has returned                                            *)
CreateDailyUpdate(n) ==
    /\ daily[n].pc = "saving"
    /\ \E created \in BOOLEAN :
          /\ ~created => faults < MaxFaults
          /\ faults' = faults + (IF created THEN 0 ELSE 1)
          /\ entries' = IF created
                        THEN Append(entries,
                                 [by |-> n,
                                  newTasks |-> daily[n].changes.new,
                                  updatedTasks |-> daily[n].changes.updated])
                        ELSE entries
          /\ cache' = CacheAfterCreate(created, cache, daily[n].current)
          /\ daily' = [daily EXCEPT ![n] =
                [@ EXCEPT !.pc = IF created THEN "done" ELSE "failed",
                          !.calls = Append(@, RemoteCall("create", "notion",
                                                   created))]]
    /\ UNCHANGED <<now, store, pc, assignments, existingTasks, i, newCount,
                   updatedCount, exitCode, calls, runs, prevRun, urgVars,
                   detVars, config,
                   fetchVars>>

(* the cache before the first run of a behaviour: no file yet, or the file *)
(* an earlier run has written                                              *)
InitCaches ==
    {NoFile,
     writeCache(<<Assignment(1, 2 * MsPerDay, 10),
                  Assignment(2, 4 * MsPerDay, 10)>>)}

DailyInit ==
    /\ Idle
    /\ pc = "idle"
    /\ now = MsPerDay
    /\ uDue = NoDue
    /\ uTier = ""
    /\ uFromDate = ""
    /\ uCategories = NoCategories
    /\ previous = <<>>
    /\ current = <<>>
    /\ changes = [new |-> <<>>, updated |-> <<>>]
    /\ cache \in InitCaches
    /\ daily = [n \in Instances |-> NotStarted]
    /\ entries = <<>>
    /\ config \in ProviderConfigs
    /\ FetchIdle

(* one instance at a time: the runs of a behaviour follow one another *)
DailyNext ==
    \/ StartDaily(1)
    \/ GenerateCompletion(1)
    \/ CreateDailyUpdate(1)

DailySpec == DailyInit /\ [][DailyNext]_vars

(* two instances started independently of one another, each running once *)
RaceNext ==
    \E n \in Instances :
       \/ daily[n].pc = "idle" /\ StartDaily(n)
       \/ GenerateCompletion(n)
       \/ CreateDailyUpdate(n)

RaceSpec == DailyInit /\ [][RaceNext]_vars

----------------------------------------------------------------------------
(* Claims about the daily update job, checked under DailySpec and RaceSpec *)

(* instance n ends a run in this step *)
EndsRun(n, as) == daily'[n] # daily[n] /\ daily'[n].pc = as

(* the calls of the given kind instance n has issued in its run *)
CallsOf(run, op) == {c \in 1..Len(run.calls) : run.calls[c].op = op}

(* C12: a run that ends without error has replaced the cache by the whole  *)
(* current snapshot if detectChanges found a new or an updated assignment; *)
(* if it found none, the run has returned at once, without a completion    *)
(* call or a write to Notion, and the cache is as it was.                  *)
C12_CacheReplacedIffChanged ==
    [][EndsRun(1, "done") =>
          LET run == daily'[1]
          IN  IF run.changes.new # <<>> \/ run.changes.updated # <<>>
              THEN /\ cache'.exists
                   /\ cache'.text = Stringify(run.current)
                   /\ Len(entries') = Len(entries) + 1
              ELSE /\ cache' = cache
                   /\ entries' = entries
                   /\ daily[1].pc \in {"idle", "done", "failed"}
                   /\ CallsOf(run, "completion") = {}
                   /\ CallsOf(run, "create") = {}]_vars

(* a run without changes has left the cache alone, and the next run, which *)
(* found an updated assignment and nothing new, has replaced it            *)
C12_Witness ==
    /\ daily[1].pc = "done"
    /\ daily[1].changes.new = <<>>
    /\ daily[1].changes.updated # <<>>
    /\ cache = writeCache(daily[1].current)
    /\ daily[1].last.pc = "done"
    /\ daily[1].last.current # <<>>
    /\ NoChanges(daily[1].last.changes)

(* the backend a value of AI_PROVIDER names, "" if it names none; an unset *)
(* variable stands for the default                                         *)
NamedBackend(env) ==
    CASE env \in {"", "openai", "OpenAI"} -> "openai"
      [] env \in {"anthropic"} -> "anthropic"
      [] env \in {"ollama", "Ollama"} -> "ollama"
      [] OTHER -> ""

(* C13: with a value of AI_PROVIDER that names none of the three backends  *)
(* a job fails at the construction of AIProvider, before any remote call:  *)
(* no fetch, no query, no write, no completion.  With a value that names a *)
(* backend, the instance holds that backend from its construction on and   *)
(* each of its completion calls goes to it.                                *)
C13_FailFastOrOneBackend ==
    IF NamedBackend(config) = ""
    THEN /\ pc \in {"idle", "failed"}
         /\ calls = <<>>
         /\ entries = <<>>
         /\ \A n \in Instances :
               /\ daily[n].pc \in {"idle", "failed"}
               /\ daily[n].calls = <<>>
    ELSE \A n \in Instances :
            daily[n].pc # "idle" =>
               /\ daily[n].client = NamedBackend(config)
               /\ \A c \in CallsOf(daily[n], "completion") :
                     daily[n].calls[c].backend = NamedBackend(config)

(* started twice with an unknown backend name, the job has failed twice *)
C13_Witness ==
    /\ NamedBackend(config) = ""
    /\ daily[1].pc = "failed"
    /\ daily[1].last.pc = "failed"
    /\ runs = 2

----------------------------------------------------------------------------
(* Further claims about the task sync job, checked under Spec *)

(* the record has no URL, or a URL without an `assignments/<digits>` part *)
Unkeyed(task) ==
    \A n \in 1..(Len(task.Url) - 1) :
       ~(task.Url[n] = W("assignments") /\ task.Url[n + 1].kind = "d")

(* the step has issued a write to the page of existing record k *)
Rewrites(k) ==
    \E c \in 1..Len(Issued) :
       /\ Issued[c].op \in {"update", "create"}
       /\ Issued[c].page = existingTasks[k].id

(* C14: the upsert of an assignment takes an existing record as its match  *)
(* exactly when the digits after `assignments/` in the URL of the record   *)
(* are the id of the assignment; a record without such a URL is the match  *)
(* of no assignment, and the upsert pass neither deletes nor rewrites it.  *)
C14_MatchedIffUrlCarriesId ==
    [][UpsertStep =>
          /\ \A k \in 1..Len(existingTasks) :
                Rewrites(k) <=> k \in Matching(assignments[i])
          /\ Len(store') >= Len(store)
          /\ \A p \in 1..Len(store) :
                Unkeyed(store[p]) => store'[p] = store[p]]_vars

(* the same with the first part weakened: the record written to carries    *)
(* the id, and some record is written to when one carries it               *)
C14_SomeMatchUpdated ==
    [][UpsertStep =>
          /\ \A k \in 1..Len(existingTasks) :
                Rewrites(k) => k \in Matching(assignments[i])
          /\ Matching(assignments[i]) # {} =>
                \E k \in Matching(assignments[i]) : Rewrites(k)
          /\ Len(store') >= Len(store)
          /\ \A p \in 1..Len(store) :
                Unkeyed(store[p]) => store'[p] = store[p]]_vars

----------------------------------------------------------------------------
(* Further claims about the change detector, checked under DetectSpec *)

RECURSIVE IsSubsequence(_, _)
(* s lists some elements of t in the order in which they occur in t *)
IsSubsequence(s, t) ==
    IF s = <<>> THEN TRUE
    ELSE IF t = <<>> THEN FALSE
    ELSE IF Head(s) = Head(t) THEN IsSubsequence(Tail(s), Tail(t))
    ELSE IsSubsequence(s, Tail(t))

(* the place where an id first occurs in current *)
FirstIndex(id) ==
    CHOOSE k \in 1..Len(current) :
       /\ current[k].id = id
       /\ \A m \in 1..(k - 1) : current[m].id # id

NoShared ==
    \A j \in 1..Len(changes.new) : \A k \in 1..Len(changes.updated) :
       /\ changes.new[j] # changes.updated[k]
       /\ changes.new[j].id # changes.updated[k].id

(* C15 as stated: new and updated share no assignment, and each lists its  *)
(* elements in the same relative order as they occur in current, whether   *)
(* or not an id is repeated in current.                                    *)
C15_Original ==
    pc = "returned" =>
        /\ NoShared
        /\ IsSubsequence(changes.new, current)
        /\ IsSubsequence(changes.updated, current)

InFirstIdOrder(list) ==
    \A j, k \in 1..Len(list) :
       j < k => FirstIndex(list[j].id) < FirstIndex(list[k].id)

(* C15, amended: new and updated share no assignment and no id, and each   *)
(* lists its elements in the order in which their ids first occur in       *)
(* current.                                                                *)
C15_DisjointInFirstIdOrder ==
    pc = "returned" =>
        /\ NoShared
        /\ InFirstIdOrder(changes.new)
        /\ InFirstIdOrder(changes.updated)

(* an id occurs at both ends of current with different content, around an  *)
(* assignment that is new as well: the later occurrence is listed first    *)
C15_Witness ==
    /\ pc = "returned"
    /\ Len(current) = 3
    /\ current[1].id = current[3].id
    /\ current[1] # current[3]
    /\ current[2].id # current[1].id
    /\ changes.new = <<current[3], current[2]>>

----------------------------------------------------------------------------
(* The fetch of a job on its own: CanvasClient.getAllAssignments, called   *)
(* at line 21 of runTaskSync, step by step.  canvas[k] is what Canvas      *)
(* holds for the k-th course.                                              *)

(* the response of GET /courses *)
CourseList ==
    <<[id |-> 5, name |-> "Math", course_code |-> "M1"],
      [id |-> 6, name |-> "", course_code |-> "CS1"]>>

UpstreamOf(course) == {a \in Upstream : CourseOf(a.id).id = course.id}

(* a fetch that takes the response although the request has failed *)
getCourseAssignments_ignoreError(response, ok) == response

(* CanvasClient.getCourseAssignments: response.data, or [] from the catch *)
getCourseAssignments(response, ok) == IF ok THEN response ELSE <<>>

(* lines 48-53: the course's name and code merged into each assignment *)
assignmentsWithCourse(list, course) ==
    [k \in 1..Len(list) |->
        [list[k] EXCEPT !.course_name = course.name,
                        !.course_code = course.course_code]]

FetchInit ==
    /\ Idle
    /\ DailyIdle
    /\ config = ""
    /\ pc = "call"
    /\ now = MsPerDay
    /\ uDue = NoDue
    /\ uTier = ""
    /\ uFromDate = ""
    /\ uCategories = NoCategories
    /\ previous = <<>>
    /\ current = <<>>
    /\ changes = [new |-> <<>>, updated |-> <<>>]
    /\ canvas \in {c \in [1..Len(CourseList) -> SeqsUpTo(Upstream, MaxInput)] :
                     \A k \in 1..Len(CourseList) :
                        Range(c[k]) \subseteq UpstreamOf(CourseList[k])}
    /\ collected = <<>>

(* getCourses, lines 22-35: the course list, or the error thrown on to the *)
(* job, which logs it and exits with status 1                              *)
GetCourses ==
    /\ pc = "call"
    /\ \E ok \in BOOLEAN :
          /\ ~ok => faults < MaxFaults
          /\ faults' = faults + (IF ok THEN 0 ELSE 1)
          /\ calls' = <<Call("courses", 0, 0, ok)>>
          /\ pc' = IF ok THEN "courses" ELSE "failed"
          /\ exitCode' = IF ok THEN exitCode ELSE 1
    /\ i' = 1
    /\ UNCHANGED <<now, store, assignments, existingTasks, newCount,
                   updatedCount, runs, prevRun, urgVars, detVars, dailyVars,
                   fetchVars>>

(* lines 45-56: one turn of the loop over the courses *)
GetCourseAssignments ==
    /\ pc = "courses"
    /\ i <= Len(CourseList)
    /\ \E ok \in BOOLEAN :
          /\ ~ok => faults < MaxFaults
          /\ faults' = faults + (IF ok THEN 0 ELSE 1)
          /\ calls' = Append(calls, Call("assignments", i, CourseList[i].id, ok))
          /\ collected' = collected \o
                assignmentsWithCourse(getCourseAssignments(canvas[i], ok),
                                      CourseList[i])
    /\ i' = i + 1
    /\ UNCHANGED <<now, store, pc, assignments, existingTasks, newCount,
                   updatedCount, exitCode, runs, prevRun, urgVars, detVars,
                   dailyVars, canvas>>

(* lines 58-61: the filter and the sort, once every course has been asked *)
ReturnAssignments ==
    /\ pc = "courses"
    /\ i > Len(CourseList)
    /\ assignments' = getAllAssignments(collected)
    /\ pc' = "returned"
    /\ UNCHANGED <<now, store, existingTasks, i, newCount, updatedCount,
                   exitCode, calls, runs, prevRun, faults, urgVars, detVars,
                   dailyVars, fetchVars>>

FetchNext ==
    \/ GetCourses
    \/ GetCourseAssignments
    \/ ReturnAssignments

FetchSpec == FetchInit /\ [][FetchNext]_vars

(* the courses whose fetch has failed, by position in the course list *)
FailedCourses == {calls[c].pos : c \in {c \in 1..Len(calls) :
                     calls[c].op = "assignments" /\ ~calls[c].ok}}

RECURSIVE Remaining(_)
(* what Canvas holds for the first k courses, the failed ones left out *)
Remaining(k) ==
    IF k = 0 THEN <<>>
    ELSE Remaining(k - 1) \o (IF k \in FailedCourses THEN <<>> ELSE canvas[k])

(* C16: the fetch for one course failing counts as an empty list for that  *)
(* course: the fetch goes on to the remaining courses and returns the      *)
(* assignments with a due date of the courses that did not fail, by due    *)
(* date.  The course-list fetch failing is not recovered: no course is     *)
(* asked, nothing is returned and the job exits with status 1.             *)
C16_CourseFailureIsEmptyList ==
    /\ pc = "returned" =>
          /\ \A k \in 1..Len(CourseList) :
                \E c \in 1..Len(calls) :
                   calls[c].op = "assignments" /\ calls[c].pos = k
          /\ assignments = SortByDue(SelectSeq(Remaining(Len(CourseList)),
                                         LAMBDA a : a.due_at # NoDue))
          /\ exitCode # 1
    /\ (calls # <<>> /\ ~calls[1].ok) =>
          /\ pc = "failed"
          /\ exitCode = 1
          /\ Len(calls) = 1
          /\ assignments = <<>>
    /\ pc = "failed" => (calls # <<>> /\ ~calls[1].ok)

(* the fetch for the first course has failed while Canvas held an          *)
(* assignment for it, and the fetch has returned those of the second       *)
C16_Witness ==
    /\ pc = "returned"
    /\ FailedCourses = {1}
    /\ canvas[1] # <<>>
    /\ assignments # <<>>
    /\ assignments = SortByDue(SelectSeq(canvas[2], LAMBDA a : a.due_at # NoDue))

(* both instances have found changes and have ended without error *)
BothReported ==
    \A n \in Instances :
       daily[n].pc = "done" /\ ~NoChanges(daily[n].changes)

(* C17: nothing keeps two instances apart.  Each reports the changes it    *)
(* has detected against the cache as it was when the instance read it, so  *)
(* two instances that read the same cache both report what is new against  *)
(* it; and the cache is left as the snapshot of the instance that created  *)
(* its entry last, whichever of the two fetched first.                     *)
C17_NoMutualExclusion ==
    BothReported =>
        /\ Len(entries) = Cardinality(Instances)
        /\ \A n \in Instances :
              \E e \in 1..Len(entries) :
                 /\ entries[e].by = n
                 /\ entries[e].newTasks = detectChanges(daily[n].previous,
                                                        daily[n].current).new
                 /\ entries[e].updatedTasks = detectChanges(daily[n].previous,
                                                            daily[n].current).updated
        /\ cache = writeCache(daily[entries[Len(entries)].by].current)

(* both instances have read the same previous snapshot and have reported   *)
(* the same new assignment, in two entries; instance 1 fetched first, saw  *)
(* another snapshot than instance 2, and its snapshot is the cache left    *)
C17_Witness ==
    /\ BothReported
    /\ daily[1].previous = daily[2].previous
    /\ Len(entries) = 2
    /\ entries[1].by # entries[2].by
    /\ \E a \in Range(entries[1].newTasks) : a \in Range(entries[2].newTasks)
    /\ daily[1].startedAt < daily[2].startedAt
    /\ daily[1].current # daily[2].current
    /\ cache = writeCache(daily[1].current)

(* the run before the current one of instance n detected changes and then  *)
(* failed, at the completion call or at createDailyUpdate                  *)
FailedAfterDetect(n) ==
    /\ daily[n].last.pc = "failed"
    /\ ~NoChanges(daily[n].last.changes)

(* the current run of instance n has fetched what the run before fetched *)
SameSnapshotAgain(n) ==
    /\ daily[n].calls # <<>>
    /\ daily[n].calls[1].ok
    /\ daily[n].current = daily[n].last.current

(* C18: the cache is written only together with a created entry; a run     *)
(* that fails, at the completion call or at createDailyUpdate, ends in     *)
(* error and leaves the cache as it was, so the next run, fetching the     *)
(* same snapshot, reads the same cache, detects the same new and updated   *)
(* assignments and, when it succeeds, reports them.                        *)
C18_CacheOnlyAfterEntry ==
    /\ [][/\ cache' # cache =>
                /\ Len(entries') = Len(entries) + 1
                /\ daily'[entries'[Len(entries')].by].pc = "done"
          /\ EndsRun(1, "failed") => cache' = cache]_vars
    /\ []((FailedAfterDetect(1) /\ SameSnapshotAgain(1)) =>
             /\ daily[1].previous = daily[1].last.previous
             /\ daily[1].changes = daily[1].last.changes
             /\ daily[1].pc \in {"summarizing", "saving", "done", "failed"}
             /\ daily[1].pc = "done" =>
                   /\ entries # <<>>
                   /\ entries[Len(entries)].newTasks = daily[1].last.changes.new
                   /\ entries[Len(entries)].updatedTasks
                         = daily[1].last.changes.updated)

(* the first run found an updated assignment and failed; the second run    *)
(* fetched the same snapshot and has created the entry the first could not *)
C18_Witness ==
    /\ FailedAfterDetect(1)
    /\ daily[1].last.changes.updated # <<>>
    /\ Len(daily[1].last.current) = 2
    /\ SameSnapshotAgain(1)
    /\ daily[1].pc = "done"
    /\ Len(entries) = 1
    /\ cache = writeCache(daily[1].current)

(* the cache holds the list, assignment by assignment *)
CacheEquals(list) ==
    /\ cache.exists
    /\ Len(cache.text) = Len(list)
    /\ \A k \in 1..Len(list) :
          /\ {"id", "name", "due_at", "points_possible", "html_url"}
                \subseteq DOMAIN cache.text[k]
          /\ \A key \in DOMAIN cache.text[k] : cache.text[k][key] = list[k][key]

(* the run before the current one of instance n found changes and ended    *)
(* without error                                                           *)
ReportedBefore(n) ==
    /\ daily[n].last.pc = "done"
    /\ ~NoChanges(daily[n].last.changes)

(* C19: once a run has found changes and has ended without error, the      *)
(* cache equals the snapshot of that run; a following run that fetches the *)
(* same snapshot detects nothing new and nothing updated, creates no entry *)
(* and does not write the cache.                                           *)
C19_SecondRunQuiet ==
    /\ []((daily[1].pc = "done" /\ ~NoChanges(daily[1].changes))
             => CacheEquals(daily[1].current))
    /\ [][(/\ daily'[1] # daily[1]
           /\ ReportedBefore(1)'
           /\ SameSnapshotAgain(1)') =>
              /\ daily'[1].changes = [new |-> <<>>, updated |-> <<>>]
              /\ daily'[1].pc = "done"
              /\ entries' = entries
              /\ cache' = cache
              /\ CacheEquals(daily[1].current)']_vars

(* the second run has fetched the two assignments the first run reported   *)
(* as new, one of them from a course without a name, and has found nothing *)
C19_Witness ==
    /\ ReportedBefore(1)
    /\ Len(daily[1].last.changes.new) = 2
    /\ SameSnapshotAgain(1)
    /\ daily[1].current[2].course_name = ""
    /\ daily[1].pc = "done"
    /\ Len(entries) = 1

(* instance n has fetched its snapshot in the current run *)
Fetched(n) == daily[n].calls # <<>> /\ daily[n].calls[1].ok

(* the ids that were in the cache and not in the snapshot of the run       *)
(* before the current one of instance n                                    *)
GoneBefore(n) ==
    {daily[n].last.previous[k].id : k \in 1..Len(daily[n].last.previous)}
       \ {daily[n].last.current[k].id : k \in 1..Len(daily[n].last.current)}

(* what the cache held for the id when that run read it *)
CachedBefore(n, id) ==
    CHOOSE old \in Range(MapValues(daily[n].last.previous)) : old.id = id

Listed(n) == Range(daily[n].changes.new) \cup Range(daily[n].changes.updated)

----------------------------------------------------------------------------
(* The three classifiers side by side: at one instant the sync job, the    *)
(* second pass and the weekly review each classify the due date uDue.      *)

CompareUrgency ==
    /\ pc = "call"
    /\ uTier' = calculateUrgency(uDue, now)
    /\ uFromDate' = calculateUrgencyFromDate(uDue, now)
    /\ uCategories' = categorizeByUrgency(<<[id |-> 1, due_at |-> uDue]>>, now)
    /\ pc' = "returned"
    /\ UNCHANGED <<now, store, assignments, existingTasks, i, newCount,
                   updatedCount, exitCode, calls, runs, prevRun, faults,
                   uDue, detVars, dailyVars, fetchVars>>

AgreeNext == CompareUrgency

AgreeSpec == UrgencyInit /\ [][AgreeNext]_vars

(* the tier a bucket of the weekly review stands for *)
TierOfBucket ==
    [overdue |-> "Overdue", urgent |-> "Urgent", thisWeek |-> "This Week",
     upcoming |-> "Upcoming"]

(* the buckets that hold an assignment *)
BucketsUsed == {b \in DOMAIN uCategories : uCategories[b] # <<>>}

(* the record the first pass has just written for the due date *)
JustWritten == Page(1, "HW1", "Math", "", uTier, NoUrl, uDue, FALSE)

(* C21: for every present due timestamp and one reference time, the tier   *)
(* of calculateUrgency, the tier of calculateUrgencyFromDate and the       *)
(* bucket chosen by categorizeByUrgency are the same, so the second pass   *)
(* has nothing to update in a record that carries the tier the first pass  *)
(* wrote for that due date at that instant.                                *)
C21_ClassifiersAgree ==
    (pc = "returned" /\ uDue # NoDue) =>
        /\ uFromDate = uTier
        /\ Cardinality(BucketsUsed) = 1
        /\ \A b \in BucketsUsed : TierOfBucket[b] = uTier
        /\ ~NeedsUrgencyUpdate(JustWritten, now)
        /\ UrgencyUpdates(<<JustWritten>>, <<JustWritten>>, now, 1)
              = <<JustWritten>>

(* a due date exactly 7 days ahead has been classified by all three *)
C21_Witness ==
    /\ pc = "returned"
    /\ uDue = now + WeekDays * MsPerDay
    /\ uTier = "This Week"
    /\ uFromDate = "This Week"
    /\ uCategories.thisWeek # <<>>

============================================================================
